---- MODULE Spec2Model ----
(***************************************************************************)
(* Model of aws-simple-form-web-app:                                       *)
(*   - cdk/bin/cdk.ts: the IPv4/IPv6 CIDR validators, resolveAllowedIpCidr *)
(*     and the deployment entry point main();                              *)
(*   - cdk/lib/web-app-stack.ts: the part of the WebAppStack constructor   *)
(*     that consumes the resolved CIDR;                                    *)
(*   - lambda/src/handler.ts: the survey request handler.                  *)
(* JavaScript strings are TLA+ strings; a character is a string of         *)
(* length one.                                                             *)
(***************************************************************************)
EXTENDS Integers, Sequences, FiniteSets, TLC

(***************************************************************************)
(* String primitives used by the source (String.prototype.* and RegExp).   *)
(***************************************************************************)

\* s[i-1] in JavaScript: the i-th character (1-based here).
Ch(s, i) == SubSeq(s, i, i)

\* The characters String.prototype.trim removes (the ones the inputs of this
\* model can contain).
Whitespace == {" ", "\t"}

Digit == {"0", "1", "2", "3", "4", "5", "6", "7", "8", "9"}

HexDigit == Digit \cup {"a", "b", "c", "d", "e", "f", "A", "B", "C", "D", "E", "F"}

\* s.includes(c) for a one-character c.
Includes(s, c) == \E i \in 1..Len(s) : Ch(s, i) = c

\* s.indexOf(c) + 1 for a one-character c that occurs in s.
IndexOf(s, c) == CHOOSE i \in 1..Len(s) :
                   /\ Ch(s, i) = c
                   /\ \A j \in 1..(i - 1) : Ch(s, j) # c

\* s.split(sep) for a one-character separator: always at least one part.
RECURSIVE Split(_, _)
Split(s, sep) ==
  IF ~Includes(s, sep)
    THEN <<s>>
    ELSE LET k == IndexOf(s, sep)
         IN  <<SubSeq(s, 1, k - 1)>> \o Split(SubSeq(s, k + 1, Len(s)), sep)

\* s.trimStart()
RECURSIVE TrimStart(_)
TrimStart(s) ==
  IF Len(s) > 0 /\ Ch(s, 1) \in Whitespace THEN TrimStart(Tail(s)) ELSE s

\* s.trimEnd()
RECURSIVE TrimEnd(_)
TrimEnd(s) ==
  IF Len(s) > 0 /\ Ch(s, Len(s)) \in Whitespace
    THEN TrimEnd(SubSeq(s, 1, Len(s) - 1))
    ELSE s

\* A resolver that forgets to trim.
TrimNothing(s) == s

\* s.trim()
Trim(s) == TrimEnd(TrimStart(s))

\* /^\d{lo,hi}$/.test(s)
MatchesDigits(s, lo, hi) ==
  /\ Len(s) >= lo
  /\ Len(s) <= hi
  /\ \A i \in 1..Len(s) : Ch(s, i) \in Digit

\* /^[0-9a-fA-F]{1,4}$/.test(s)
MatchesHexGroup(s) ==
  /\ Len(s) >= 1
  /\ Len(s) <= 4
  /\ \A i \in 1..Len(s) : Ch(s, i) \in HexDigit

DigitValue(c) ==
  CASE c = "0" -> 0 [] c = "1" -> 1 [] c = "2" -> 2 [] c = "3" -> 3
    [] c = "4" -> 4 [] c = "5" -> 5 [] c = "6" -> 6 [] c = "7" -> 7
    [] c = "8" -> 8 [] c = "9" -> 9

\* Number(s) for a string of decimal digits.
RECURSIVE NumberOf(_)
NumberOf(s) ==
  IF Len(s) = 0
    THEN 0
    ELSE 10 * NumberOf(SubSeq(s, 1, Len(s) - 1)) + DigitValue(Ch(s, Len(s)))

\* (ip.match(/::/g) || []).length: the non-overlapping occurrences of "::",
\* found left to right.
RECURSIVE DoubleColonMatches(_)
DoubleColonMatches(s) ==
  IF Len(s) < 2
    THEN 0
    ELSE IF SubSeq(s, 1, 2) = "::"
           THEN 1 + DoubleColonMatches(SubSeq(s, 3, Len(s)))
           ELSE DoubleColonMatches(Tail(s))

(***************************************************************************)
(* cdk/bin/cdk.ts: the validators.                                         *)
(***************************************************************************)

Ipv4OctetMax == 255

Ipv6MaskMax == 128

\* The IPv4 limit taken from the IPv6 validator.
Ipv4MaskMaxOfIpv6 == Ipv6MaskMax

Ipv4MaskMax == 32

\* The octet test with the upper limit excluded.
Ipv4OctetOkBelowMax(p) ==
  IF ~MatchesDigits(p, 1, 3)
    THEN FALSE
    ELSE NumberOf(p) >= 0 /\ NumberOf(p) < Ipv4OctetMax

Ipv4OctetOk(p) ==
  IF ~MatchesDigits(p, 1, 3)
    THEN FALSE
    ELSE NumberOf(p) >= 0 /\ NumberOf(p) <= Ipv4OctetMax

isIpv4(ip) ==
  LET parts == Split(ip, ".")
  IN  IF Len(parts) # 4
        THEN FALSE
        ELSE \A i \in 1..Len(parts) : Ipv4OctetOk(parts[i])

\* const [ip, mask] = cidr.split('/'): parts beyond the second are dropped,
\* and mask is undefined when there is no '/'.
CidrIp(cidr) == Split(cidr, "/")[1]

CidrHasMask(cidr) == Len(Split(cidr, "/")) >= 2

CidrMask(cidr) == Split(cidr, "/")[2]

isValidIpv4Cidr(cidr) ==
  IF CidrIp(cidr) = "" \/ ~CidrHasMask(cidr) THEN FALSE
  ELSE IF ~isIpv4(CidrIp(cidr)) THEN FALSE
  ELSE IF ~MatchesDigits(CidrMask(cidr), 1, 2) THEN FALSE
  ELSE NumberOf(CidrMask(cidr)) >= 0 /\ NumberOf(CidrMask(cidr)) <= Ipv4MaskMax

\* The loop body of isIpv6 for parts[i]: FALSE where the code returns false,
\* TRUE where it continues.
Ipv6PartOk(parts, i) ==
  LET part == parts[i]
  IN  IF part = ""
        THEN \* both the inner `continue` and the outer one accept the part
             IF i # 1 /\ i # Len(parts)
               THEN IF i = 1 \/ (parts[i - 1] # "" /\ parts[i + 1] # "")
                      THEN TRUE
                      ELSE TRUE
               ELSE TRUE
      ELSE IF Includes(part, ".")
        THEN IF i # Len(parts) THEN FALSE ELSE isIpv4(part)
      ELSE MatchesHexGroup(part)

\* isIpv6 without the lower limit on the number of parts.
isIpv6AnyPartCount(ip) ==
  LET parts == Split(ip, ":")
      emptyParts == {i \in 1..Len(parts) : parts[i] = ""}
  IN  IF Len(parts) > 8 THEN FALSE
      ELSE IF /\ Cardinality(emptyParts) > 1
              /\ (DoubleColonMatches(ip) = 0 \/ DoubleColonMatches(ip) > 1)
             THEN FALSE
      ELSE \A i \in 1..Len(parts) : Ipv6PartOk(parts, i)

isIpv6(ip) ==
  LET parts == Split(ip, ":")
      emptyParts == {i \in 1..Len(parts) : parts[i] = ""}
  IN  IF Len(parts) < 3 \/ Len(parts) > 8 THEN FALSE
      ELSE IF /\ Cardinality(emptyParts) > 1
              /\ (DoubleColonMatches(ip) = 0 \/ DoubleColonMatches(ip) > 1)
             THEN FALSE
      ELSE \A i \in 1..Len(parts) : Ipv6PartOk(parts, i)

isValidIpv6Cidr(cidr) ==
  IF CidrIp(cidr) = "" \/ ~CidrHasMask(cidr) THEN FALSE
  ELSE IF ~isIpv6(CidrIp(cidr)) THEN FALSE
  ELSE IF ~MatchesDigits(CidrMask(cidr), 1, 3) THEN FALSE
  ELSE NumberOf(CidrMask(cidr)) >= 0 /\ NumberOf(CidrMask(cidr)) <= Ipv6MaskMax

isValidIpCidr(cidr) == isValidIpv4Cidr(cidr) \/ isValidIpv6Cidr(cidr)

(***************************************************************************)
(* cdk/bin/cdk.ts: resolveAllowedIpCidr.                                   *)
(***************************************************************************)

\* process.env: a function from the names that are set to their values.
EnvNames == {"ALLOWED_IP_CIDR", "ALLOWED_IP"}

\* (process.env[name] || ''): unset and the empty string both give ''.
EnvOrEmpty(processEnv, name) ==
  IF name \in DOMAIN processEnv THEN processEnv[name] ELSE ""

MsgCidrInvalid ==
  "ALLOWED_IP_CIDR must be a valid IPv4 CIDR (e.g., \"203.0.113.7/32\") or IPv6 CIDR (e.g., \"2001:db8::1/128\"). Got: "

MsgIpCidrInvalid ==
  "ALLOWED_IP appears to be a CIDR but is invalid. Provide a valid IPv4 CIDR (e.g., \"203.0.113.7/32\") or IPv6 CIDR (e.g., \"2001:db8::1/128\"). Got: "

MsgIpInvalid == "ALLOWED_IP must be a valid IPv4 or IPv6 address. Got: "

MsgMissing ==
  "ALLOWED_IP_CIDR (or ALLOWED_IP) environment variable must be set to deploy the stack."

\* The settled promise of an async function.
Return(v) == [kind |-> "return", value |-> v]

Throw(m) == [kind |-> "throw", value |-> m]

Ipv4HostSuffix == "/32"

Ipv6HostSuffixOfIpv4 == "/32"

Ipv6HostSuffix == "/128"

\* The block with the offending input left out of the message.
ResolveFromCidrEnvBareMessage(ipCidrEnv) ==
  IF isValidIpCidr(ipCidrEnv)
    THEN Return(ipCidrEnv)
    ELSE Throw(MsgCidrInvalid)

\* The `if (ipCidrEnv) { ... }` block.
ResolveFromCidrEnv(ipCidrEnv) ==
  IF isValidIpCidr(ipCidrEnv)
    THEN Return(ipCidrEnv)
    ELSE Throw(MsgCidrInvalid \o ipCidrEnv)

\* The block with a value that has a mask used as provided, unvalidated.
ResolveFromIpEnvMaskAsProvided(ipEnv) ==
  IF Includes(ipEnv, "/") THEN Return(ipEnv)
  ELSE IF isIpv4(ipEnv) THEN Return(ipEnv \o Ipv4HostSuffix)
  ELSE IF isIpv6(ipEnv) THEN Return(ipEnv \o Ipv6HostSuffix)
  ELSE Throw(MsgIpInvalid \o ipEnv)

\* The `if (ipEnv) { ... }` block.
ResolveFromIpEnv(ipEnv) ==
  IF Includes(ipEnv, "/")
    THEN IF isValidIpCidr(ipEnv)
           THEN Return(ipEnv)
           ELSE Throw(MsgIpCidrInvalid \o ipEnv)
  ELSE IF isIpv4(ipEnv) THEN Return(ipEnv \o Ipv4HostSuffix)
  ELSE IF isIpv6(ipEnv) THEN Return(ipEnv \o Ipv6HostSuffix)
  ELSE Throw(MsgIpInvalid \o ipEnv)

\* A resolver that falls back to ALLOWED_IP when ALLOWED_IP_CIDR is invalid.
resolveAllowedIpCidrFallingBack(processEnv) ==
  LET ipCidrEnv == Trim(EnvOrEmpty(processEnv, "ALLOWED_IP_CIDR"))
      ipEnv     == Trim(EnvOrEmpty(processEnv, "ALLOWED_IP"))
  IN  IF ipCidrEnv # "" /\ (isValidIpCidr(ipCidrEnv) \/ ipEnv = "")
        THEN ResolveFromCidrEnv(ipCidrEnv)
      ELSE IF ipEnv # "" THEN ResolveFromIpEnv(ipEnv)
      ELSE Throw(MsgMissing)

resolveAllowedIpCidr(processEnv) ==
  LET ipCidrEnv == Trim(EnvOrEmpty(processEnv, "ALLOWED_IP_CIDR"))
      ipEnv     == Trim(EnvOrEmpty(processEnv, "ALLOWED_IP"))
  IN  IF ipCidrEnv # "" THEN ResolveFromCidrEnv(ipCidrEnv)
      ELSE IF ipEnv # "" THEN ResolveFromIpEnv(ipEnv)
      ELSE Throw(MsgMissing)

(***************************************************************************)
(* cdk/lib/web-app-stack.ts: what the constructor does with the CIDR.      *)
(***************************************************************************)

getIpAddressVersion(cidr) == IF Includes(cidr, ":") THEN "IPV6" ELSE "IPV4"

\* (The source quotes allowedIpCidr in backticks, which a TLA+ string cannot hold.)
MsgStackNeedsCidr ==
  "WebAppStack requires allowedIpCidr to be provided (e.g. \"203.0.113.4/32\")."

\* The constructs the constructor adds to the stack, createWaf's included.
StackResources(cidr) ==
  { "SiteBucket", "SiteOAI", "SubmitFunction", "SubmitApi",
    "CloudFrontIpWhitelist-" \o getIpAddressVersion(cidr), "CloudFrontWebAcl",
    "aws-waf-logs-CloudFrontIpWhitelistAcl", "WebDistribution", "LogDelivery",
    "DeployWebsite", "CloudFrontURL", "ApiInvokeUrl" }

NoStack ==
  [entered |-> FALSE, allowedIpCidr |-> "", ipAddressVersion |-> "", resources |-> {}]

(***************************************************************************)
(* JSON.parse and JSON.stringify, for the texts and values of this model:  *)
(* null, true, false, unsigned integers, strings without escapes, arrays   *)
(* and objects.  A value is [t, s, kids]: its type, its text (strings,     *)
(* numbers, booleans) and its elements or members.                         *)
(***************************************************************************)

JsonWhitespace == {" ", "\t", "\n", "\r"}

JsonValue(t, s, kids) == [t |-> t, s |-> s, kids |-> kids]

\* What reading a property that is not there gives.
Undefined == JsonValue("undefined", "", <<>>)

\* The result of a parsing step: whether it succeeded, the position after what
\* it read, and the value read.
Parsed(pos, val) == [ok |-> TRUE, pos |-> pos, val |-> val]

SyntaxError == [ok |-> FALSE, pos |-> 0, val |-> Undefined]

\* text has lit at position i.
StartsWith(text, i, lit) ==
  /\ i + Len(lit) - 1 <= Len(text)
  /\ SubSeq(text, i, i + Len(lit) - 1) = lit

RECURSIVE SkipWhitespace(_, _)
SkipWhitespace(text, i) ==
  IF i <= Len(text) /\ Ch(text, i) \in JsonWhitespace
    THEN SkipWhitespace(text, i + 1)
    ELSE i

\* The position after the last digit of the run of digits that starts at i.
RECURSIVE DigitsEnd(_, _)
DigitsEnd(text, i) ==
  IF i <= Len(text) /\ Ch(text, i) \in Digit THEN DigitsEnd(text, i + 1) ELSE i

\* The position of the quote that closes the string opened before i, or 0.
RECURSIVE ClosingQuote(_, _)
ClosingQuote(text, i) ==
  IF i > Len(text) \/ Ch(text, i) = "\\" THEN 0
  ELSE IF Ch(text, i) = "\"" THEN i
  ELSE ClosingQuote(text, i + 1)

ParseString(text, i) ==
  LET j == ClosingQuote(text, i + 1)
  IN  IF j = 0
        THEN SyntaxError
        ELSE Parsed(j + 1, JsonValue("string", SubSeq(text, i + 1, j - 1), <<>>))

ParseNumber(text, i) ==
  LET j == DigitsEnd(text, i)
  IN  IF Ch(text, i) = "0" /\ j > i + 1
        THEN SyntaxError
        ELSE Parsed(j, JsonValue("number", SubSeq(text, i, j - 1), <<>>))

RECURSIVE ParseValue(_, _)
RECURSIVE ParseElements(_, _, _)
RECURSIVE ParseMembers(_, _, _)

\* The elements of an array from position i on, after those in acc.
ParseElements(text, i, acc) ==
  LET v == ParseValue(text, i)
      j == SkipWhitespace(text, v.pos)
  IN  IF ~v.ok THEN SyntaxError
      ELSE IF j > Len(text) THEN SyntaxError
      ELSE IF Ch(text, j) = "," THEN ParseElements(text, j + 1, Append(acc, v.val))
      ELSE IF Ch(text, j) = "]"
        THEN Parsed(j + 1, JsonValue("array", "", Append(acc, v.val)))
      ELSE SyntaxError

\* The members of an object from position i on, after those in acc.
ParseMembers(text, i, acc) ==
  LET k == SkipWhitespace(text, i)
      key == IF k <= Len(text) /\ Ch(text, k) = "\""
               THEN ParseString(text, k)
               ELSE SyntaxError
      c == SkipWhitespace(text, key.pos)
      v == IF key.ok /\ c <= Len(text) /\ Ch(text, c) = ":"
             THEN ParseValue(text, c + 1)
             ELSE SyntaxError
      j == SkipWhitespace(text, v.pos)
      member == [k |-> key.val.s, v |-> v.val]
  IN  IF ~v.ok THEN SyntaxError
      ELSE IF j > Len(text) THEN SyntaxError
      ELSE IF Ch(text, j) = "," THEN ParseMembers(text, j + 1, Append(acc, member))
      ELSE IF Ch(text, j) = "}"
        THEN Parsed(j + 1, JsonValue("object", "", Append(acc, member)))
      ELSE SyntaxError

ParseValue(text, at) ==
  LET i == SkipWhitespace(text, at)
  IN  IF i > Len(text) THEN SyntaxError
      ELSE IF StartsWith(text, i, "null") THEN Parsed(i + 4, JsonValue("null", "", <<>>))
      ELSE IF StartsWith(text, i, "true")
        THEN Parsed(i + 4, JsonValue("boolean", "true", <<>>))
      ELSE IF StartsWith(text, i, "false")
        THEN Parsed(i + 5, JsonValue("boolean", "false", <<>>))
      ELSE IF Ch(text, i) = "\"" THEN ParseString(text, i)
      ELSE IF Ch(text, i) \in Digit THEN ParseNumber(text, i)
      ELSE IF Ch(text, i) = "["
        THEN IF /\ SkipWhitespace(text, i + 1) <= Len(text)
                /\ Ch(text, SkipWhitespace(text, i + 1)) = "]"
               THEN Parsed(SkipWhitespace(text, i + 1) + 1, JsonValue("array", "", <<>>))
               ELSE ParseElements(text, i + 1, <<>>)
      ELSE IF Ch(text, i) = "{"
        THEN IF /\ SkipWhitespace(text, i + 1) <= Len(text)
                /\ Ch(text, SkipWhitespace(text, i + 1)) = "}"
               THEN Parsed(SkipWhitespace(text, i + 1) + 1, JsonValue("object", "", <<>>))
               ELSE ParseMembers(text, i + 1, <<>>)
      ELSE SyntaxError

\* JSON.parse(text): the value, or SyntaxError where JSON.parse throws.
JsonParse(text) ==
  LET r == ParseValue(text, 1)
  IN  IF r.ok /\ SkipWhitespace(text, r.pos) = Len(text) + 1 THEN r ELSE SyntaxError

RECURSIVE JsonStringify(_)
RECURSIVE StringifyKids(_, _, _)

\* The elements or members in kids from the i-th on, separated by commas.
StringifyKids(isObject, kids, i) ==
  IF i > Len(kids) THEN ""
  ELSE (IF i > 1 THEN "," ELSE "")
         \o (IF isObject
               THEN "\"" \o kids[i].k \o "\":" \o JsonStringify(kids[i].v)
               ELSE JsonStringify(kids[i]))
         \o StringifyKids(isObject, kids, i + 1)

\* JSON.stringify(v), for values whose strings need no escaping.
JsonStringify(v) ==
  IF v.t = "string" THEN "\"" \o v.s \o "\""
  ELSE IF v.t = "array" THEN "[" \o StringifyKids(FALSE, v.kids, 1) \o "]"
  ELSE IF v.t = "object" THEN "{" \o StringifyKids(TRUE, v.kids, 1) \o "}"
  ELSE IF v.t = "null" THEN "null"
  ELSE v.s

\* v[name] for a value v that is not null: the last member of that name of an
\* object, undefined for everything else.
RECURSIVE GetMember(_, _, _)
GetMember(kids, name, i) ==
  IF i = 0 THEN Undefined
  ELSE IF kids[i].k = name THEN kids[i].v
  ELSE GetMember(kids, name, i - 1)

GetProperty(v, name) ==
  IF v.t = "object" THEN GetMember(v.kids, name, Len(v.kids)) ELSE Undefined

\* !v
Falsy(v) ==
  \/ v.t \in {"undefined", "null"}
  \/ v.t = "boolean" /\ v.s = "false"
  \/ v.t = "number" /\ NumberOf(v.s) = 0
  \/ v.t = "string" /\ v.s = ""

(***************************************************************************)
(* lambda/src/handler.ts                                                   *)
(***************************************************************************)

ALLOWED_FLAVORS == <<"vanilla", "chocolate", "strawberry", "mint", "cookie-dough">>

\* ALLOWED_FLAVORS.includes(v)
AllowedIncludes(v) ==
  v.t = "string" /\ \E i \in 1..Len(ALLOWED_FLAVORS) : ALLOWED_FLAVORS[i] = v.s

StringValue(s) == JsonValue("string", s, <<>>)

\* headers[name], undefined (here "") when the header is not there.
Header(headers, name) == IF name \in DOMAIN headers THEN headers[name] ELSE ""

\* event.headers?.origin || event.headers?.Origin
RequestOrigin(ev) ==
  IF Header(ev.headers, "origin") # ""
    THEN Header(ev.headers, "origin")
    ELSE Header(ev.headers, "Origin")

CorsHeaderNames ==
  {"Access-Control-Allow-Origin", "Access-Control-Allow-Methods",
   "Access-Control-Allow-Headers"}

corsHeaders(origin) ==
  [h \in CorsHeaderNames |->
     IF h = "Access-Control-Allow-Origin" THEN (IF origin # "" THEN origin ELSE "*")
     ELSE IF h = "Access-Control-Allow-Methods" THEN "OPTIONS,POST"
     ELSE "Content-Type"]

\* {'Content-Type': 'application/json', ...corsHeaders(origin)}
JsonHeaders(origin) ==
  [h \in CorsHeaderNames \cup {"Content-Type"} |->
     IF h = "Content-Type" THEN "application/json" ELSE corsHeaders(origin)[h]]

\* { error: 'Invalid flavor', allowed: ALLOWED_FLAVORS } without the list.
InvalidFlavorPayloadWithoutList ==
  JsonValue("object", "", <<[k |-> "error", v |-> StringValue("Invalid flavor")]>>)

\* { error: 'Invalid flavor', allowed: ALLOWED_FLAVORS }
InvalidFlavorPayload ==
  JsonValue("object", "",
    << [k |-> "error", v |-> StringValue("Invalid flavor")],
       [k |-> "allowed",
        v |-> JsonValue("array", "",
                [i \in 1..Len(ALLOWED_FLAVORS) |-> StringValue(ALLOWED_FLAVORS[i])])] >>)

\* { ok: true, message } (the message ends with an ice-cream emoji in the
\* source, written here as its name).
SuccessPayload(flavor) ==
  JsonValue("object", "",
    << [k |-> "ok", v |-> JsonValue("boolean", "true", <<>>)],
       [k |-> "message",
        v |-> StringValue("Yum! You picked " \o flavor \o " (ice cream)")] >>)

ServerErrorPayload ==
  JsonValue("object", "", <<[k |-> "error", v |-> StringValue("Server error")]>>)

Result(statusCode, headers, body) ==
  [statusCode |-> statusCode, headers |-> headers, body |-> body]

\* event.body ?? ''
BodyRaw(ev) == IF ev.body = <<>> THEN "" ELSE ev.body[1]

\* The handler from the parsed body on: reading body.flavor of null throws a
\* TypeError, which the outer catch turns into the 500.
HandleParsed(ev, body) ==
  IF body.t = "null"
    THEN Result(500, JsonHeaders(RequestOrigin(ev)), JsonStringify(ServerErrorPayload))
  ELSE IF Falsy(GetProperty(body, "flavor")) \/ ~AllowedIncludes(GetProperty(body, "flavor"))
    THEN Result(400, JsonHeaders(RequestOrigin(ev)), JsonStringify(InvalidFlavorPayload))
  ELSE Result(200, JsonHeaders(RequestOrigin(ev)),
              JsonStringify(SuccessPayload(GetProperty(body, "flavor").s)))

handler(ev) ==
  IF ~JsonParse(BodyRaw(ev)).ok
    THEN Result(400, corsHeaders(RequestOrigin(ev)), "")
    ELSE HandleParsed(ev, JsonParse(BodyRaw(ev)).val)

(***************************************************************************)
(* State.                                                                  *)
(***************************************************************************)

VARIABLES
  processEnv,    \* process.env of the deployment process
  pc,            \* where main() is: start, resolve, stack, done, catch, exited
  appCreated,    \* new App() has run
  resolveCalls,  \* how many times resolveAllowedIpCidr has been called
  resolved,      \* the settled promise of resolveAllowedIpCidr, or pending
  stack,         \* the WebAppStack: entered, its CIDR, IP version, resources
  thrown,        \* the rejection of main(): the message, when there is one
  stderr,        \* what console.error has printed
  exitCode,      \* process.exit's argument; -1 while process.exit was not called
  event,         \* the APIGatewayProxyEvent the handler is invoked with
  hpc,           \* where the handler is: invoked, responded (off: no invocation)
  response       \* the APIGatewayProxyResult the handler returned

deployVars ==
  <<processEnv, pc, appCreated, resolveCalls, resolved, stack, thrown, stderr, exitCode>>

handlerVars == <<event, hpc, response>>

vars == <<deployVars, handlerVars>>

(***************************************************************************)
(* The inputs of the deployment: values of the two environment variables.  *)
(***************************************************************************)

\* How many blanks may surround a value.
MaxPad == 1

RECURSIVE Blanks(_)
Blanks(n) == IF n = 0 THEN "" ELSE " " \o Blanks(n - 1)

Pads == {Blanks(n) : n \in 0..MaxPad} \cup {"\t"}

CidrSamples ==
  { "203.0.113.0/24", "203.0.113.7/32", "0.0.0.0/0", "2001:db8::1/128", "::/0",
    "999.1.1.1/32", "203.0.113.7/33", "203.0.113.7/", "2001:db8::1/129",
    "1.2.3/8", "/32" }

AddressSamples ==
  { "203.0.113.7", "2001:db8::1", "::ffff:192.0.2.1", "256.1.1.1", "1.2.3",
    "2001:db8::1::", "example.com", "" }

Padded(samples) == {l \o s \o r : l \in Pads, s \in samples, r \in Pads}

\* Either variable may hold a CIDR or a bare address, padded or not.
CidrEnvValues == Padded(CidrSamples \cup {"203.0.113.7", ""})

IpEnvValues ==
  Padded(AddressSamples \cup {"203.0.113.0/24", "999.1.1.1/32", "2001:db8::1/129"})

\* process.env with the two variables set to c and b.
EnvOf(c, b) == [n \in EnvNames |-> IF n = "ALLOWED_IP_CIDR" THEN c ELSE b]

\* process.env with one variable set, and with none.
EnvOfOne(name, v) == [n \in {name} |-> v]

EnvOfNone == [n \in {} |-> ""]

ProcessEnvs ==
  {EnvOfNone}
    \cup {EnvOfOne("ALLOWED_IP_CIDR", c) : c \in CidrEnvValues}
    \cup {EnvOfOne("ALLOWED_IP", b) : b \in IpEnvValues}
    \cup {EnvOf(c, b) : c \in CidrEnvValues, b \in IpEnvValues}

(***************************************************************************)
(* cdk/bin/cdk.ts: main() and its catch handler.                           *)
(***************************************************************************)

Pending == [kind |-> "pending", value |-> ""]

\* main() about to run.
DeployStart ==
  /\ pc = "start"
  /\ appCreated = FALSE
  /\ resolveCalls = 0
  /\ resolved = Pending
  /\ stack = NoStack
  /\ thrown = <<>>
  /\ stderr = <<>>
  /\ exitCode = -1

\* const app = new App()
NewApp ==
  /\ pc = "start"
  /\ appCreated' = TRUE
  /\ pc' = "resolve"
  /\ UNCHANGED <<processEnv, resolveCalls, resolved, stack, thrown, stderr, exitCode, handlerVars>>

\* A main() that goes on to the stack whatever the promise settled to.
AfterResolveIgnoringFailure(r) == "stack"

\* Where main() continues once the promise of resolveAllowedIpCidr settles.
AfterResolve(r) == IF r.kind = "return" THEN "stack" ELSE "catch"

\* const allowedIpCidr = await resolveAllowedIpCidr()
AwaitResolve ==
  /\ pc = "resolve"
  /\ resolveCalls' = resolveCalls + 1
  /\ resolved' = resolveAllowedIpCidr(processEnv)
  /\ pc' = AfterResolve(resolved')
  /\ thrown' = IF resolved'.kind = "throw" THEN <<resolved'.value>> ELSE thrown
  /\ UNCHANGED <<processEnv, appCreated, stack, stderr, exitCode, handlerVars>>

\* new WebAppStack(app, 'SimpleFormWebAppStack', {allowedIpCidr, ...})
NewWebAppStack ==
  /\ pc = "stack"
  /\ IF resolved.value = "" \/ Len(Trim(resolved.value)) = 0
       THEN /\ stack' = [NoStack EXCEPT !.entered = TRUE]
            /\ thrown' = <<MsgStackNeedsCidr>>
            /\ pc' = "catch"
       ELSE /\ stack' = [entered          |-> TRUE,
                         allowedIpCidr    |-> Trim(resolved.value),
                         ipAddressVersion |-> getIpAddressVersion(Trim(resolved.value)),
                         resources        |-> StackResources(Trim(resolved.value))]
            /\ thrown' = thrown
            /\ pc' = "done"
  /\ UNCHANGED <<processEnv, appCreated, resolveCalls, resolved, stderr, exitCode, handlerVars>>

FailureStatus == 1

\* main().catch((err) => { console.error(err); process.exit(1) })
CatchMain ==
  /\ pc = "catch"
  /\ stderr' = Append(stderr, thrown[1])
  /\ exitCode' = FailureStatus
  /\ pc' = "exited"
  /\ UNCHANGED <<processEnv, appCreated, resolveCalls, resolved, stack, thrown, handlerVars>>

DeployNext == NewApp \/ AwaitResolve \/ NewWebAppStack \/ CatchMain

\* No handler invocation is part of a deployment run.
HandlerOff ==
  /\ event = [body |-> <<>>, headers |-> <<>>]
  /\ hpc = "off"
  /\ response = [statusCode |-> 0, headers |-> <<>>, body |-> ""]

Init ==
  /\ processEnv \in ProcessEnvs
  /\ DeployStart
  /\ HandlerOff

Next == DeployNext

Spec == Init /\ [][Next]_vars

(***************************************************************************)
(* Properties of the deployment.                                           *)
(***************************************************************************)

\* The two inputs as given, and as the resolver reads them.
RawCidrInput == EnvOrEmpty(processEnv, "ALLOWED_IP_CIDR")

RawBareInput == EnvOrEmpty(processEnv, "ALLOWED_IP")

CidrInput == Trim(RawCidrInput)

BareInput == Trim(RawBareInput)

Settled == resolved.kind # "pending"

ResolveFailed == resolved.kind = "throw"

\* sub occurs in s.
Contains(s, sub) ==
  \E i \in 0..(Len(s) - Len(sub)) : SubSeq(s, i + 1, i + Len(sub)) = sub

\* C1: when the explicit CIDR input is non-empty after trimming, the outcome
\* is a function of that input alone, whatever the bare-address input: the
\* trimmed CIDR input unchanged when isValidIpCidr accepts it, the
\* ALLOWED_IP_CIDR error otherwise, and never a result made from the bare
\* address.
C1_CidrInputDecides ==
  (Settled /\ CidrInput # "") =>
     resolved = IF isValidIpCidr(CidrInput)
                  THEN Return(CidrInput)
                  ELSE Throw(MsgCidrInvalid \o CidrInput)

\* C1 witness: an invalid explicit CIDR next to a valid bare address, failed.
C1_Witness ==
  /\ ResolveFailed
  /\ CidrInput # ""
  /\ isIpv4(BareInput)

\* C2: with the CIDR input empty after trimming and no '/' in the trimmed bare
\* address, the result is the bare address plus "/32" exactly when isIpv4
\* accepts it, plus "/128" exactly when isIpv6 (and not isIpv4) accepts it, and
\* a failure otherwise.
C2_BareAddressNormalized ==
  (Settled /\ CidrInput = "" /\ ~Includes(BareInput, "/")) =>
     /\ (resolved = Return(BareInput \o "/32")) <=> isIpv4(BareInput)
     /\ (resolved = Return(BareInput \o "/128")) <=>
           (isIpv6(BareInput) /\ ~isIpv4(BareInput))
     /\ ResolveFailed <=> (~isIpv4(BareInput) /\ ~isIpv6(BareInput))

\* C2 witness: a padded IPv6 address was normalized to a /128.
C2_Witness ==
  /\ CidrInput = ""
  /\ RawBareInput # BareInput
  /\ isIpv6(BareInput)
  /\ resolved = Return(BareInput \o "/128")

\* C3: once resolving has failed, the stack constructor has not been entered
\* and no resource exists, the resolver has been called once only, and the
\* run is either about to report the error and exit, or has exited with the
\* error printed and the failure status, after which no step is possible.
C3_FailureAbortsBeforeStack ==
  ResolveFailed =>
     /\ ~stack.entered
     /\ stack.resources = {}
     /\ resolveCalls = 1
     /\ \/ pc = "catch" /\ ENABLED CatchMain
        \/ /\ pc = "exited"
           /\ exitCode = 1
           /\ stderr = <<resolved.value>>
           /\ ~ENABLED Next

\* C3 witness: a run whose resolution failed has exited with status 1.
C3_Witness ==
  /\ ResolveFailed
  /\ pc = "exited"
  /\ exitCode = 1

\* s is unset, empty or made of whitespace only.
Blank(s) == \A i \in 1..Len(s) : Ch(s, i) \in Whitespace

\* C4: the missing-configuration error, which names the two inputs, is raised
\* exactly when each input is unset, empty or whitespace only.
C4_MissingConfiguration ==
  Settled =>
     /\ (Blank(RawCidrInput) /\ Blank(RawBareInput)) <=> resolved = Throw(MsgMissing)
     /\ Contains(MsgMissing, "ALLOWED_IP_CIDR")
     /\ Contains(MsgMissing, "(or ALLOWED_IP)")

\* C4 witness: one input unset, the other only blanks, and the error raised.
C4_Witness ==
  /\ "ALLOWED_IP_CIDR" \notin DOMAIN processEnv
  /\ "ALLOWED_IP" \in DOMAIN processEnv
  /\ RawBareInput # ""
  /\ resolved = Throw(MsgMissing)

\* C7: a returned string, given back as the explicit CIDR input next to any
\* bare-address input, is returned unchanged.
C7_Idempotent ==
  (resolved.kind = "return") =>
     /\ resolveAllowedIpCidr(EnvOfOne("ALLOWED_IP_CIDR", resolved.value))
          = Return(resolved.value)
     /\ \A b \in AddressSamples \cup {"203.0.113.0/24", " 203.0.113.7\t"} :
          resolveAllowedIpCidr(EnvOf(resolved.value, b)) = Return(resolved.value)

\* C7 witness: a result that normalization produced from a bare address.
C7_Witness ==
  /\ resolved.kind = "return"
  /\ CidrInput = ""
  /\ resolved.value # BareInput

\* The input the failure is about, as given and as trimmed.
RawOffendingInput ==
  IF CidrInput # "" THEN RawCidrInput
  ELSE IF BareInput # "" THEN RawBareInput
  ELSE ""

OffendingInput == Trim(RawOffendingInput)

\* C8 as stated: the message of every error holds the input as it was given.
C8_MessageHoldsRawInput ==
  ResolveFailed => Contains(resolved.value, RawOffendingInput)

\* C8 amended: the message of every error holds the offending input as
\* trimmed (the missing-configuration error, which has no offending input,
\* names the two variables), and the error reaches main's catch handler, which
\* prints it: no run whose input is rejected returns a value.
C8_MessageHoldsTrimmedInput ==
  /\ ResolveFailed =>
       /\ Contains(resolved.value, OffendingInput)
       /\ (OffendingInput = "" =>
             /\ Contains(resolved.value, "ALLOWED_IP_CIDR")
             /\ Contains(resolved.value, "(or ALLOWED_IP)"))
       /\ thrown = <<resolved.value>>
       /\ (pc = "exited" => stderr = <<resolved.value>>)
  /\ (Settled /\ CidrInput # "" /\ ~isValidIpCidr(CidrInput)) => ResolveFailed

\* C8 witness: an explicit CIDR given with blanks around it was rejected.
C8_Witness ==
  /\ ResolveFailed
  /\ CidrInput # ""
  /\ RawCidrInput # CidrInput
  /\ pc = "exited"

(***************************************************************************)
(* Deployments whose ALLOWED_IP_CIDR is written as a dotted quad a.b.c.d/p. *)
(***************************************************************************)

\* The decimal numeral of n, without leading zeros.
RECURSIVE ToDecimal(_)
ToDecimal(n) ==
  IF n < 10
    THEN SubSeq("0123456789", n + 1, n + 1)
    ELSE ToDecimal(n \div 10) \o SubSeq("0123456789", (n % 10) + 1, (n % 10) + 1)

\* The largest out-of-range prefix length tried right above 32.
MaxMaskProbe == 35

\* Octets in [0,255], written in decimal (with and without leading zeros).
GoodOctets == {ToDecimal(n) : n \in {0, 25, 255}} \cup {"007"}

\* Octets above 255, and octets that are not numbers.
LargeOctets == {ToDecimal(n) : n \in {256, 999, 1000}}

NonNumericOctets == {"a", "1a", "-1", ""}

\* Prefix lengths in [0,32], and above 32.
GoodMasks == {ToDecimal(n) : n \in 0..32} \cup {"08"}

LargeMasks == {ToDecimal(n) : n \in (33..MaxMaskProbe) \cup {64, 99, 128, 129}}

Quad(a, b, c, d, p) == a \o "." \o b \o "." \o c \o "." \o d \o "/" \o p

\* Every octet and the prefix length in range.
GoodQuads ==
  {Quad(a, b, c, d, p) : a \in GoodOctets, b \in GoodOctets, c \in GoodOctets,
                         d \in GoodOctets, p \in GoodMasks}

\* One octet out of range or not a number, in any of the four places.
BadOctetQuads ==
  LET Bad == LargeOctets \cup NonNumericOctets
      Tuples == {<<a, b, c, d>> \in (GoodOctets \cup Bad) \X (GoodOctets \cup Bad)
                                     \X (GoodOctets \cup Bad) \X (GoodOctets \cup Bad) :
                   Cardinality({i \in 1..4 : <<a, b, c, d>>[i] \in Bad}) = 1}
  IN  {Quad(t[1], t[2], t[3], t[4], p) : t \in Tuples, p \in {"0", "24", "32"} \cup LargeMasks}

\* The prefix length above 32, the octets in range.
BadMaskQuads ==
  {Quad(a, b, c, d, p) : a \in GoodOctets, b \in GoodOctets, c \in GoodOctets,
                         d \in GoodOctets, p \in LargeMasks}

QuadEnvs ==
  {EnvOfOne("ALLOWED_IP_CIDR", q) : q \in GoodQuads \cup BadOctetQuads \cup BadMaskQuads}
    \cup {EnvOf(q, "203.0.113.7") : q \in BadOctetQuads \cup BadMaskQuads}

QuadInit ==
  /\ processEnv \in QuadEnvs
  /\ DeployStart
  /\ HandlerOff

QuadSpec == QuadInit /\ [][Next]_vars

\* C5: every a.b.c.d/p with decimal octets in [0,255] and a decimal prefix
\* length in [0,32] is accepted by isValidIpCidr, and a deployment given it as
\* the explicit CIDR resolves to it.
C5_GoodQuadAccepted ==
  (CidrInput \in GoodQuads) =>
     /\ isValidIpCidr(CidrInput)
     /\ Settled => resolved = Return(CidrInput)

\* C5 witness: the largest octets with the largest prefix length, resolved.
C5_Witness ==
  /\ CidrInput = "255.255.255.255/32"
  /\ resolved = Return("255.255.255.255/32")

\* C6: every dotted-quad CIDR with a non-numeric octet, an octet above 255 or
\* a prefix length above 32 is refused by isValidIpCidr, and a deployment
\* given it as the explicit CIDR fails with the ALLOWED_IP_CIDR error.
C6_BadQuadRefused ==
  (CidrInput \in BadOctetQuads \cup BadMaskQuads) =>
     /\ ~isValidIpCidr(CidrInput)
     /\ Settled => resolved = Throw(MsgCidrInvalid \o CidrInput)

\* C6 witness: a prefix length of 33 was refused although a valid bare
\* address was there to fall back on.
C6_Witness ==
  /\ CidrInput = "255.255.255.255/33"
  /\ isIpv4(BareInput)
  /\ ResolveFailed

(***************************************************************************)
(* Invocations of the survey handler.                                      *)
(***************************************************************************)

\* Request bodies: JSON texts with an allowed flavor, with another flavor,
\* with none, values that are not objects, and texts that are not JSON.
BodyTexts ==
  { "{\"flavor\":\"vanilla\"}", "{\"flavor\":\"chocolate\"}",
    "{\"flavor\":\"strawberry\"}", "{\"flavor\":\"mint\"}",
    "{\"flavor\":\"cookie-dough\"}", " { \"flavor\" : \"mint\" } ",
    "{\"name\":\"x\",\"flavor\":\"mint\"}", "{\"flavor\":\"banana\",\"flavor\":\"mint\"}",
    "{\"flavor\":\"banana\"}", "{\"flavor\":\"Vanilla\"}", "{\"flavor\":\"\"}",
    "{\"flavor\":null}", "{\"flavor\":0}", "{\"flavor\":7}", "{\"flavor\":true}",
    "{\"flavor\":[\"mint\"]}", "{\"flavor\":{\"flavor\":\"mint\"}}",
    "{\"flavour\":\"mint\"}", "{}", "[]", "[\"mint\"]", "\"mint\"", "7", "true",
    "null", " null ",
    "", " ", "mint", "{", "{\"flavor\":\"mint\"", "{\"flavor\":}", "{flavor:\"mint\"}",
    "{\"flavor\":\"mint\",}", "{\"flavor\":\"mint\"} x", "flavor=mint" }

\* event.body: null, or a text.
Bodies == {<<>>} \cup {<<t>> : t \in BodyTexts}

\* event.headers, as far as the handler reads them.
HeaderSets ==
  { [h \in {} |-> ""],
    [h \in {"origin"} |-> "https://a.example"],
    [h \in {"Origin"} |-> "https://b.example"],
    [h \in {"origin", "Origin"} |->
       IF h = "origin" THEN "https://a.example" ELSE "https://b.example"],
    [h \in {"origin", "Origin"} |-> IF h = "origin" THEN "" ELSE "https://b.example"] }

Events == {[body |-> b, headers |-> h] : b \in Bodies, h \in HeaderSets}

\* No deployment is part of a handler invocation.
DeployOff ==
  /\ processEnv = EnvOfNone
  /\ pc = "off"
  /\ appCreated = FALSE
  /\ resolveCalls = 0
  /\ resolved = Pending
  /\ stack = NoStack
  /\ thrown = <<>>
  /\ stderr = <<>>
  /\ exitCode = -1

HandlerInit ==
  /\ DeployOff
  /\ event \in Events
  /\ hpc = "invoked"
  /\ response = [statusCode |-> 0, headers |-> <<>>, body |-> ""]

\* The handler runs and returns its result.
Handle ==
  /\ hpc = "invoked"
  /\ response' = handler(event)
  /\ hpc' = "responded"
  /\ UNCHANGED <<event, deployVars>>

HandlerNext == Handle

HandlerSpec == HandlerInit /\ [][HandlerNext]_vars

(***************************************************************************)
(* Properties of the handler.                                              *)
(***************************************************************************)

Responded == hpc = "responded"

\* The body parses as JSON.
BodyParses == JsonParse(BodyRaw(event)).ok

\* The flavor field of the parsed body, undefined when the body has none.
FlavorField ==
  IF BodyParses /\ JsonParse(BodyRaw(event)).val.t = "object"
    THEN GetProperty(JsonParse(BodyRaw(event)).val, "flavor")
    ELSE Undefined

FlavorAllowed ==
  /\ FlavorField.t = "string"
  /\ FlavorField.s \in {"vanilla", "chocolate", "strawberry", "mint", "cookie-dough"}

\* C9 as stated: the status is 200 exactly when the body parses and its
\* flavor is one of the five, and it is 400 (never 500) when the body does
\* not parse, has no flavor field, or has a flavor that is not one of the five.
C9_StatusByFlavor ==
  Responded =>
     /\ (response.statusCode = 200) <=> (BodyParses /\ FlavorAllowed)
     /\ (~BodyParses \/ FlavorField.t = "undefined" \/ ~FlavorAllowed)
          => response.statusCode = 400

\* C10 as stated: every 400 response lists the allowed flavors in its body.
C10_Every400ListsAllowed ==
  (Responded /\ response.statusCode = 400) =>
     \A f \in {"vanilla", "chocolate", "strawberry", "mint", "cookie-dough"} :
        Contains(response.body, "\"" \o f \o "\"")

\* C10 amended: a 400 response for a body that parses as JSON lists the
\* allowed flavors in a JSON error payload; the 400 response for a body that
\* does not parse has an empty body.
C10_Parsed400ListsAllowed ==
  (Responded /\ response.statusCode = 400) =>
     IF BodyParses
       THEN /\ Contains(response.body, "\"error\":")
            /\ \A f \in {"vanilla", "chocolate", "strawberry", "mint", "cookie-dough"} :
                 Contains(response.body, "\"" \o f \o "\"")
            /\ response.headers["Content-Type"] = "application/json"
       ELSE response.body = ""

\* C10 witness: a body that parses, with a flavor that is not allowed, was
\* answered with a 400.
C10_Witness ==
  /\ Responded
  /\ response.statusCode = 400
  /\ BodyParses
  /\ FlavorField.t = "string"
  /\ ~FlavorAllowed

(***************************************************************************)
(* Deployments whose input is any short string of digits, colons, dots and *)
(* slashes: addresses and CIDRs of both families, well formed or not.      *)
(***************************************************************************)

\* The longest address written out of "1", ":" and ".".
MaxFormLen == 7

FormAlphabet == {"1", ":", "."}

\* Every string over FormAlphabet of length n at most.
RECURSIVE StringsUpTo(_)
StringsUpTo(n) ==
  IF n = 0
    THEN {""}
    ELSE StringsUpTo(n - 1)
           \cup {s \o c : s \in StringsUpTo(n - 1), c \in FormAlphabet}

FormAddresses ==
  StringsUpTo(MaxFormLen)
    \cup {"203.0.113.7", "2001:db8::1", "::ffff:192.0.2.1", "1.2.3.4:5:6", "1:2:3.4.5.6"}

\* What follows the address: nothing, a prefix length, and more after it.
FormTails ==
  {"", "/", "/8", "/32", "/33", "/128", "/129", "/x", "/8/", "/8/x", "/8/16", "/8/::", "//8"}

\* Written in full for the addresses that are given by name, with "/8" and
\* with a second part for the others.
FormCandidates ==
  FormAddresses
    \cup {a \o "/8" : a \in FormAddresses}
    \cup {a \o "/8/::" : a \in {"1.1.1.1", "1:1:1", "::1", ":::", "1:::1"}}
    \cup {a \o t : a \in {"203.0.113.7", "2001:db8::1", "::ffff:192.0.2.1", "1.1.1.1", "::"},
                   t \in FormTails}

FormEnvs ==
  {EnvOfOne("ALLOWED_IP_CIDR", c) : c \in FormCandidates}
    \cup {EnvOfOne("ALLOWED_IP", c) : c \in FormCandidates}

FormInit ==
  /\ processEnv \in FormEnvs
  /\ DeployStart
  /\ HandlerOff

FormSpec == FormInit /\ [][Next]_vars

(***************************************************************************)
(* Properties of the accepted forms.                                       *)
(***************************************************************************)

\* How many times the character c occurs in s.
CountOf(s, c) == Cardinality({i \in 1..Len(s) : Ch(s, i) = c})

\* s is a non-empty address, one '/', and a non-empty decimal prefix length
\* with nothing after it: an IPv4 address with a prefix length of 32 at most,
\* or an IPv6 address with one of 128 at most.
WellFormedCidrBlock(s) ==
  /\ CountOf(s, "/") = 1
  /\ LET k == IndexOf(s, "/")
         address == SubSeq(s, 1, k - 1)
         prefix == SubSeq(s, k + 1, Len(s))
     IN  /\ address # ""
         /\ prefix # ""
         /\ \A i \in 1..Len(prefix) : Ch(prefix, i) \in Digit
         /\ \/ isIpv4(address) /\ NumberOf(prefix) <= 32
            \/ isIpv6(address) /\ NumberOf(prefix) <= 128

\* C11 as stated: every string isValidIpCidr accepts, and every string the
\* resolver returns, is a well-formed CIDR block.
C11_AcceptedIsWellFormed ==
  Settled =>
     /\ (isValidIpCidr(CidrInput) => WellFormedCidrBlock(CidrInput))
     /\ (isValidIpCidr(BareInput) => WellFormedCidrBlock(BareInput))
     /\ (resolved.kind = "return" => WellFormedCidrBlock(resolved.value))

\* How many times "::" occurs in s, overlapping occurrences counted.
ElisionOccurrences(s) ==
  Cardinality({i \in 1..(Len(s) - 1) : SubSeq(s, i, i + 1) = "::"})

\* C12 as stated: isIpv6 accepts only strings in which "::" occurs once at
\* most, so a bare address with two elisions or with three or more colons in
\* a row is never accepted nor normalized to a /128.
C12_AtMostOneElision ==
  (Settled /\ CidrInput = "" /\ ~Includes(BareInput, "/")) =>
     /\ (isIpv6(BareInput) => ElisionOccurrences(BareInput) <= 1)
     /\ (resolved = Return(BareInput \o "/128") => ElisionOccurrences(BareInput) <= 1)

\* The input the resolver reads: the explicit CIDR, or else the bare address.
GivenInput == IF CidrInput # "" THEN CidrInput ELSE BareInput

\* The part of s before its first '/'.
AddressPart(s) == IF Includes(s, "/") THEN SubSeq(s, 1, IndexOf(s, "/") - 1) ELSE s

\* C13: no string passes both isIpv4 and isIpv6, none passes both CIDR
\* validations, and isValidIpCidr accepts a string (and the resolver returns
\* the explicit CIDR) exactly when one of the two validations, and not the
\* other, accepts it.
C13_FamiliesExclusive ==
  Settled =>
     /\ ~(isIpv4(GivenInput) /\ isIpv6(GivenInput))
     /\ ~(isIpv4(AddressPart(GivenInput)) /\ isIpv6(AddressPart(GivenInput)))
     /\ ~(isValidIpv4Cidr(GivenInput) /\ isValidIpv6Cidr(GivenInput))
     /\ isValidIpCidr(GivenInput) <=>
          (isValidIpv4Cidr(GivenInput) # isValidIpv6Cidr(GivenInput))
     /\ (CidrInput # "") =>
          ((resolved = Return(CidrInput)) <=>
             (isValidIpv4Cidr(CidrInput) # isValidIpv6Cidr(CidrInput)))

\* C13 witness: an IPv6 CIDR whose address ends in a dotted quad was accepted
\* by the IPv6 validation alone.
C13_Witness ==
  /\ CidrInput = "::ffff:192.0.2.1/128"
  /\ resolved = Return(CidrInput)
  /\ isValidIpv6Cidr(CidrInput)
  /\ ~isValidIpv4Cidr(CidrInput)

\* Which validation accepted the input the resolver read: the CIDR
\* validation of a family for an input with a '/', its address test otherwise.
Ipv4Accepted ==
  IF Includes(GivenInput, "/") THEN isValidIpv4Cidr(GivenInput) ELSE isIpv4(GivenInput)

Ipv6Accepted ==
  IF Includes(GivenInput, "/") THEN isValidIpv6Cidr(GivenInput) ELSE isIpv6(GivenInput)

\* C14 as stated: the IP address version the stack gives its IP set is IPV4
\* exactly when the IPv4 validation accepted the input, and IPV6 exactly when
\* the IPv6 validation did.
C14_VersionMatchesFamily ==
  (pc = "done") =>
     /\ stack.allowedIpCidr = resolved.value
     /\ (stack.ipAddressVersion = "IPV4") <=> Ipv4Accepted
     /\ (stack.ipAddressVersion = "IPV6") <=> Ipv6Accepted

====
